---- MODULE Spec2Model ----
(***************************************************************************)
(* Animation Builder plugin: the panel (component.tsx), its validators and *)
(* sanitizers (utils/error-handling.ts), the debounce hook                 *)
(* (utils/performance.ts) and the prompt-submission hook.                  *)
(*                                                                         *)
(* Strings are TLA+ strings; characters are read with SubSeq(s, i, i).     *)
(* Numbers are integers: every number the panel stores comes out of        *)
(* parseInt or out of DEFAULT_CONFIG, so Number.isInteger holds of the     *)
(* non-NaN ones and NaN is modelled as a separate flag.                    *)
(* Time is in milliseconds.                                                *)
(***************************************************************************)
EXTENDS Integers, Sequences, FiniteSets, TLC

(***************************************************************************)
(* Bounds of the model.                                                    *)
(***************************************************************************)
\* number of config objects one panel may allocate (one per setConfig call)
MaxEdits == 2
\* number of messages addCustomProperty may append to the displayed errors
MaxErrors == 1
\* granularity of the clock, in milliseconds
TickMs == 150

(***************************************************************************)
(* types.ts                                                                *)
(***************************************************************************)
ANIMATION_TYPES ==
  << [value |-> "css-transition", label |-> "CSS Transitions"],
     [value |-> "css-keyframes",  label |-> "CSS Keyframes"],
     [value |-> "motion",         label |-> "Motion React"],
     [value |-> "react-spring",   label |-> "React Spring"],
     [value |-> "gsap",           label |-> "GSAP"],
     [value |-> "lottie",         label |-> "Lottie"] >>

COMMON_PROPERTIES ==
  << "opacity", "transform", "background-color", "color", "width", "height",
     "margin", "padding", "border", "box-shadow", "border-radius" >>

MIN_DURATION == 0
MAX_DURATION == 30000
MIN_DELAY == 0
MAX_DELAY == 10000
MAX_ITERATIONS == 100
MIN_CUSTOM_PROPERTY_LENGTH == 1
MAX_CUSTOM_PROPERTY_LENGTH == 50

\* iterations: number | 'infinite', as a tagged record
Infinite == [kind |-> "infinite"]
Num(n) == [kind |-> "number", n |-> n]
\* the number n + 1/2, which is not an integer
Half(n) == [kind |-> "number", n |-> n, half |-> TRUE]

\* Number.isInteger(value), value < k and value > k for an integer k
IsInteger(value) == "half" \notin DOMAIN value
Below(value, k) == value.n < k
Above(value, k) == IF IsInteger(value) THEN value.n > k ELSE value.n >= k

\* the one module-level DEFAULT_CONFIG object; id is the object's identity
DEFAULT_CONFIG ==
  [ id            |-> 0,
    type          |-> "css-transition",
    duration      |-> 300,
    easing        |-> "ease",
    delay         |-> 0,
    iterations    |-> Num(1),
    direction     |-> "normal",
    fillMode      |-> "both",
    properties    |-> << "opacity", "transform" >>,
    customOptions |-> << >> ]

(***************************************************************************)
(* JavaScript primitives used by the code                                  *)
(***************************************************************************)
Max(a, b) == IF a >= b THEN a ELSE b
Min(a, b) == IF a <= b THEN a ELSE b

CharAt(s, i) == SubSeq(s, i, i)

Digits == {"0", "1", "2", "3", "4", "5", "6", "7", "8", "9"}
Letters ==
  {"a", "b", "c", "d", "e", "f", "g", "h", "i", "j", "k", "l", "m",
   "n", "o", "p", "q", "r", "s", "t", "u", "v", "w", "x", "y", "z",
   "A", "B", "C", "D", "E", "F", "G", "H", "I", "J", "K", "L", "M",
   "N", "O", "P", "Q", "R", "S", "T", "U", "V", "W", "X", "Y", "Z"}
WhiteSpace == {" ", "\t", "\n", "\r", "\f"}

DigitVal(c) == CHOOSE d \in 0..9 : CharAt("0123456789", d + 1) = c

\* Array.prototype.includes
Includes(arr, x) == \E i \in 1..Len(arr) : arr[i] = x

\* Array.prototype.filter(p => p !== x)
RECURSIVE Without(_, _)
Without(arr, x) ==
  IF arr = << >> THEN << >>
  ELSE IF Head(arr) = x THEN Without(Tail(arr), x)
       ELSE << Head(arr) >> \o Without(Tail(arr), x)

\* Array.prototype.join
RECURSIVE Join(_, _)
Join(arr, sep) ==
  IF arr = << >> THEN ""
  ELSE IF Len(arr) = 1 THEN arr[1]
       ELSE arr[1] \o sep \o Join(Tail(arr), sep)

\* index of the first character of s at or after i that is not white space
RECURSIVE SkipWhite(_, _)
SkipWhite(s, i) ==
  IF i <= Len(s) /\ CharAt(s, i) \in WhiteSpace THEN SkipWhite(s, i + 1) ELSE i

\* index of the last character of s at or before i that is not white space
RECURSIVE SkipWhiteBack(_, _)
SkipWhiteBack(s, i) ==
  IF i >= 1 /\ CharAt(s, i) \in WhiteSpace THEN SkipWhiteBack(s, i - 1) ELSE i

\* String.prototype.trim
Trim(s) == SubSeq(s, SkipWhite(s, 1), SkipWhiteBack(s, Len(s)))

\* String.prototype.slice(0, n), n >= 0
Slice0(s, n) == SubSeq(s, 1, Min(n, Len(s)))

\* value of the longest run of decimal digits of s starting at i, given the
\* value acc of the digits already read
RECURSIVE DigitRun(_, _, _)
DigitRun(s, i, acc) ==
  IF i <= Len(s) /\ CharAt(s, i) \in Digits
  THEN DigitRun(s, i + 1, acc * 10 + DigitVal(CharAt(s, i)))
  ELSE acc

NaN == [nan |-> TRUE, n |-> 0]

\* parseInt(s, 10): leading white space, an optional sign, then digits
ParseInt(s) ==
  LET i    == SkipWhite(s, 1)
      neg  == i <= Len(s) /\ CharAt(s, i) = "-"
      sgn  == i <= Len(s) /\ CharAt(s, i) \in {"-", "+"}
      j    == IF sgn THEN i + 1 ELSE i
  IN  IF j <= Len(s) /\ CharAt(s, j) \in Digits
      THEN [nan |-> FALSE,
            n   |-> IF neg THEN 0 - DigitRun(s, j, 0) ELSE DigitRun(s, j, 0)]
      ELSE NaN

(***************************************************************************)
(* utils/error-handling.ts: sanitizers                                     *)
(***************************************************************************)
\* a plausible slip: the parsed number is returned as it is
sanitizeNumericInputNoFloor(value, defaultValue) ==
  LET parsed == ParseInt(value)
  IN  IF parsed.nan THEN defaultValue ELSE parsed.n

sanitizeNumericInput(value, defaultValue) ==
  LET parsed == ParseInt(value)
  IN  IF parsed.nan THEN defaultValue ELSE Max(0, parsed.n)

sanitizeStringInput(value, maxLength) == Slice0(Trim(value), maxLength)

(***************************************************************************)
(* utils/error-handling.ts: validators                                     *)
(***************************************************************************)
Result(errors) == [isValid |-> errors = << >>, errors |-> errors]

\* a plausible slip: the upper limit is not checked
validateDurationNoMaxCheck(value) ==
  Result(
    IF value < MIN_DURATION
    THEN << "Duration must be a positive integer (minimum: "
            \o ToString(MIN_DURATION) \o "ms)" >>
    ELSE << >>)

validateDuration(value) ==
  Result(
    (IF value < MIN_DURATION
     THEN << "Duration must be a positive integer (minimum: "
             \o ToString(MIN_DURATION) \o "ms)" >>
     ELSE << >>)
    \o
    (IF value > MAX_DURATION
     THEN << "Duration cannot exceed " \o ToString(MAX_DURATION) \o "ms ("
             \o ToString(MAX_DURATION \div 1000) \o "s)" >>
     ELSE << >>))

validateDelay(value) ==
  Result(
    (IF value < MIN_DELAY
     THEN << "Delay must be a non-negative integer (minimum: "
             \o ToString(MIN_DELAY) \o "ms)" >>
     ELSE << >>)
    \o
    (IF value > MAX_DELAY
     THEN << "Delay cannot exceed " \o ToString(MAX_DELAY) \o "ms ("
             \o ToString(MAX_DELAY \div 1000) \o "s)" >>
     ELSE << >>))

\* a plausible slip: Number.isInteger is not asked
validateIterationsNoIntegerCheck(value) ==
  Result(
    IF value.kind # "infinite"
    THEN (IF Below(value, 1)
          THEN << "Iterations must be a positive integer or \"infinite\"" >>
          ELSE << >>)
         \o
         (IF Above(value, MAX_ITERATIONS)
          THEN << "Iterations cannot exceed " \o ToString(MAX_ITERATIONS) >>
          ELSE << >>)
    ELSE << >>)

validateIterations(value) ==
  Result(
    IF value.kind # "infinite"
    THEN (IF ~IsInteger(value) \/ Below(value, 1)
          THEN << "Iterations must be a positive integer or \"infinite\"" >>
          ELSE << >>)
         \o
         (IF Above(value, MAX_ITERATIONS)
          THEN << "Iterations cannot exceed " \o ToString(MAX_ITERATIONS) >>
          ELSE << >>)
    ELSE << >>)

\* a plausible slip: only the first character is matched
cssPropertyRegexFirstOnly(property) ==
  /\ Len(property) >= 1
  /\ CharAt(property, 1) \in Letters \cup {"-"}

\* /^[a-zA-Z-][a-zA-Z0-9-]*$/.test(property)
cssPropertyRegex(property) ==
  /\ Len(property) >= 1
  /\ CharAt(property, 1) \in Letters \cup {"-"}
  /\ \A i \in 2..Len(property) :
       CharAt(property, i) \in Letters \cup Digits \cup {"-"}

\* a plausible slip: the checks are chained, the first failure ends them
validateCustomPropertyFirstFailure(property) ==
  Result(
    IF Len(property) < MIN_CUSTOM_PROPERTY_LENGTH
    THEN << "Property name cannot be empty" >>
    ELSE IF Len(property) > MAX_CUSTOM_PROPERTY_LENGTH
    THEN << "Property name cannot exceed "
            \o ToString(MAX_CUSTOM_PROPERTY_LENGTH) \o " characters" >>
    ELSE IF ~cssPropertyRegex(property)
    THEN << "Property name must be a valid CSS property (letters, numbers, and hyphens only)" >>
    ELSE << >>)

validateCustomProperty(property) ==
  Result(
    (IF Len(property) < MIN_CUSTOM_PROPERTY_LENGTH
     THEN << "Property name cannot be empty" >>
     ELSE << >>)
    \o
    (IF Len(property) > MAX_CUSTOM_PROPERTY_LENGTH
     THEN << "Property name cannot exceed "
             \o ToString(MAX_CUSTOM_PROPERTY_LENGTH) \o " characters" >>
     ELSE << >>)
    \o
    (IF ~cssPropertyRegex(property)
     THEN << "Property name must be a valid CSS property (letters, numbers, and hyphens only)" >>
     ELSE << >>))

\* the errors pushed by the loop over the custom (non-common) properties
RECURSIVE CustomPropertyErrors(_)
CustomPropertyErrors(props) ==
  IF props = << >> THEN << >>
  ELSE LET prop       == Head(props)
           propResult == validateCustomProperty(prop)
       IN  (IF ~Includes(COMMON_PROPERTIES, prop) /\ ~propResult.isValid
            THEN << "Invalid custom property \"" \o prop \o "\": "
                    \o Join(propResult.errors, ", ") >>
            ELSE << >>)
           \o CustomPropertyErrors(Tail(props))

\* a plausible slip: the delay is validated before the duration
validateAnimationConfigDelayFirst(cfg) ==
  Result(
    validateDelay(cfg.delay).errors
    \o validateDuration(cfg.duration).errors
    \o validateIterations(cfg.iterations).errors
    \o (IF Len(cfg.properties) = 0
        THEN << "At least one property must be selected for animation" >>
        ELSE << >>)
    \o CustomPropertyErrors(cfg.properties))

validateAnimationConfig(cfg) ==
  Result(
    validateDuration(cfg.duration).errors
    \o validateDelay(cfg.delay).errors
    \o validateIterations(cfg.iterations).errors
    \o (IF Len(cfg.properties) = 0
        THEN << "At least one property must be selected for animation" >>
        ELSE << >>)
    \o CustomPropertyErrors(cfg.properties))

(***************************************************************************)
(* component.tsx: the text written by onPromptSend                         *)
(***************************************************************************)
\* ANIMATION_TYPES.find(t => t.value === type): the matches, first one first
RECURSIVE FindType(_, _)
FindType(types, type) ==
  IF types = << >> THEN << >>
  ELSE IF Head(types).value = type THEN << Head(types) >>
       ELSE FindType(Tail(types), type)

\* `${iterations}`
IterationsText(it) == IF it.kind = "infinite" THEN "infinite" ELSE ToString(it.n)

\* JSON.stringify(customOptions, null, 2) of a list of <<key, string>> pairs
RECURSIVE JsonMembers(_)
JsonMembers(opts) ==
  IF opts = << >> THEN ""
  ELSE "  \"" \o Head(opts)[1] \o "\": \"" \o Head(opts)[2] \o "\""
       \o (IF Len(opts) > 1 THEN ",\n" ELSE "\n")
       \o JsonMembers(Tail(opts))

JsonStringify(opts) == "{\n" \o JsonMembers(opts) \o "}"

\* a plausible slip: the easing line written before the duration line
SpecificationLinesEasingFirst(cfg) ==
  LET selectedTypeInfo == FindType(ANIMATION_TYPES, cfg.type)
      found            == selectedTypeInfo # << >>
  IN  "- Animation Type: "
      \o (IF found THEN selectedTypeInfo[1].label ELSE cfg.type) \o "\n"
      \o "- Easing: " \o cfg.easing \o "\n"
      \o "- Duration: " \o ToString(cfg.duration) \o "ms\n"
      \o "- Delay: " \o ToString(cfg.delay) \o "ms\n"
      \o "- Iterations: " \o IterationsText(cfg.iterations) \o "\n"
      \o "- Direction: " \o cfg.direction \o "\n"
      \o "- Fill Mode: " \o cfg.fillMode \o "\n"
      \o "- Properties: " \o Join(cfg.properties, ", ") \o "\n"

\* the eight "- <field>: <value>" lines
SpecificationLines(cfg) ==
  LET selectedTypeInfo == FindType(ANIMATION_TYPES, cfg.type)
      found            == selectedTypeInfo # << >>
  IN  "- Animation Type: "
      \o (IF found THEN selectedTypeInfo[1].label ELSE cfg.type) \o "\n"
      \o "- Duration: " \o ToString(cfg.duration) \o "ms\n"
      \o "- Easing: " \o cfg.easing \o "\n"
      \o "- Delay: " \o ToString(cfg.delay) \o "ms\n"
      \o "- Iterations: " \o IterationsText(cfg.iterations) \o "\n"
      \o "- Direction: " \o cfg.direction \o "\n"
      \o "- Fill Mode: " \o cfg.fillMode \o "\n"
      \o "- Properties: " \o Join(cfg.properties, ", ") \o "\n"

contextSuffix(cfg) ==
  LET selectedTypeInfo == FindType(ANIMATION_TYPES, cfg.type)
      found            == selectedTypeInfo # << >>
  IN  "\n\n--- Animation Builder Plugin Context ---\n"
      \o "Please implement a "
      \o (IF found THEN selectedTypeInfo[1].label ELSE "CSS")
      \o " animation on the selected element(s) with these specifications:\n"
      \o SpecificationLines(cfg)
      \o (IF Len(cfg.customOptions) > 0
          THEN "- Custom Options: " \o JsonStringify(cfg.customOptions) \o "\n"
          ELSE "")
      \o "\nApply this animation to the selected element considering its current styles and structure.\n"
      \o "Follow modern CSS animation best practices and ensure accessibility.\n"
      \o "--- End Animation Builder Plugin Context ---\n"

(***************************************************************************)
(* State                                                                   *)
(***************************************************************************)
VARIABLES
  mounted,                 \* an AnimationPanel is rendered by the host
  config,                  \* useState(DEFAULT_CONFIG)
  selectedProperties,      \* useState(DEFAULT_CONFIG.properties)
  customProperty,          \* useState('')
  validationErrors,        \* useState([])
  isLoading,               \* useState(false)
  debouncedValue,          \* useDebounce's useState(value): debouncedConfig
  timers,                  \* pending setTimeout callbacks of useDebounce
  currentAnimationConfig,  \* the module-scoped slot
  nextId,                  \* identity of the next config object of the panel
  returned,                \* what the last call of the host got back
  \* history variables
  lastAccepted,            \* config last found valid by the validation effect
  burstLen,                \* value changes since the debounce was last idle
  propagated,              \* setDebouncedValue calls since the burst began
  sinceChange,             \* ms since the last value change (capped)
  closedWithPending,       \* unmounted, and a debounce timer was pending then
  \* calls of the exported utility functions
  input,                   \* the arguments of the call
  output,                  \* what the call returned
  \* utils/performance.ts
  now,                     \* Date.now(), in ms since the module was loaded
  elapses,                 \* history: the number of times the clock advanced
  cache,                   \* MemoizationCache.cache: key -> {value, timestamp}
  last,                    \* history: the last operation on the cache
  inThrottle,              \* throttle: the flag of the closure
  throttleTimers,          \* throttle: due times of the pending setTimeout
  lastRun,                 \* useThrottle: lastRun.current
  runs,                    \* history: the executed calls of each callback
  \* utils/error-handling.ts: DebouncedErrorHandler
  errorCounts,             \* key -> {count, lastOccurrence}
  occurrences,             \* history: key -> the current run of occurrences
  fault,                   \* history: the last internal fault, as the host saw it
  \* utils/performance.ts: debounce
  timeout,                 \* let timeout, of each wrapped function
  bursts                   \* history: the bursts of calls of each function

vars ==
  << mounted, config, selectedProperties, customProperty, validationErrors,
     isLoading, debouncedValue, timers, currentAnimationConfig, nextId,
     returned, lastAccepted, burstLen, propagated, sinceChange,
     closedWithPending, input, output, now, elapses, cache, last,
     inThrottle, throttleTimers, lastRun, runs, errorCounts, occurrences,
     fault, timeout, bursts >>

pluginVars ==
  << mounted, config, selectedProperties, customProperty, validationErrors,
     isLoading, debouncedValue, timers, currentAnimationConfig, nextId,
     returned, lastAccepted, burstLen, propagated, sinceChange,
     closedWithPending >>

callVars == << input, output >>

cacheVars == << cache, last >>

clockVars == << now, elapses >>

throttleVars == << inThrottle, throttleTimers, lastRun, runs >>

handlerVars == << errorCounts, occurrences >>

debounceVars == << timeout, bursts >>

utilVars ==
  << callVars, clockVars, cacheVars, throttleVars, handlerVars, fault,
     debounceVars >>

\* what a call of a validator or sanitizer leaves alone, input apart
notCalled ==
  << pluginVars, clockVars, cacheVars, throttleVars, handlerVars, fault,
     debounceVars >>

\* what an operation on the cache leaves alone, the clock apart
notCached ==
  << pluginVars, callVars, throttleVars, handlerVars, fault, debounceVars >>

\* what a throttled call leaves alone, the clock apart
notThrottled ==
  << pluginVars, callVars, cacheVars, handlerVars, fault, debounceVars >>

\* what DebouncedErrorHandler leaves alone, the clock apart
notHandled ==
  << pluginVars, callVars, cacheVars, throttleVars, fault, debounceVars >>

\* what a debounced call leaves alone, the clock apart
notDebounced ==
  << pluginVars, callVars, cacheVars, throttleVars, handlerVars, fault >>

panelVars ==
  << config, selectedProperties, customProperty, validationErrors, isLoading >>

Null == [tag |-> "null"]
NoCall == [op |-> "none"]

\* useDebounce(config, 300)
DebounceDelay == 300

\* onPromptSend is synchronous: the host has taken what it returned before
\* any other event is handled
HostReady == returned.op # "onPromptSend"

(***************************************************************************)
(* Inputs                                                                  *)
(***************************************************************************)
\* number of COMMON_PROPERTIES check boxes the user toggles
MaxCommon == 3

\* the <select> changes of type, easing, direction and fill mode
SelectUpdates ==
  { [type |-> "gsap"], [easing |-> "linear"],
    [direction |-> "reverse"], [fillMode |-> "none"] }

\* raw text of the duration and delay inputs
NumericRaw == { "50000", "-5", "abc" }

\* raw value handed to handleIterationsChange
IterationsRaw == { "infinite", "500", "-3", "abc" }

\* raw text of the custom-property input; the last one is 52 characters long
CustomRaw ==
  { "my$prop", "  my-prop ",
    "a123456789b123456789c123456789d123456789e123456789$x" }

\* the prompt handed to onPromptSend: contextElements missing, empty or not
Prompts ==
  { [present |-> FALSE, contextElements |-> << >>],
    [present |-> TRUE,  contextElements |-> << >>],
    [present |-> TRUE,  contextElements |-> << "div#hero" >>] }

(***************************************************************************)
(* performance.ts: useDebounce                                             *)
(***************************************************************************)
\* a plausible slip: the handle passed to clearTimeout is not the pending one
clearTimeoutStaleHandle(ts, value) == ts

\* clearTimeout(handler), handler being the timer of the effect run for value
clearTimeout(ts, value) == { t \in ts : t.value # value }

\* setTimeout(() => setDebouncedValue(value), delay)
setTimeout(ts, value, delay) == ts \cup { [value |-> value, left |-> delay] }

\* a plausible slip: the effect returns no cleanup function
useDebounceEffectNoCleanup(ts, old, new) == setTimeout(ts, new, DebounceDelay)

\* the effect of useDebounce re-run because value changed from old to new:
\* the cleanup of the previous run, then the new timer
useDebounceEffect(ts, old, new) ==
  setTimeout(clearTimeout(ts, old), new, DebounceDelay)

(***************************************************************************)
(* component.tsx: the validation effect, run when debouncedConfig changes  *)
(***************************************************************************)
\* a plausible slip: the slot is written before the result is looked at
ValidationEffectStoresInvalid(debouncedConfig) ==
  LET validation == validateAnimationConfig(debouncedConfig)
  IN  /\ currentAnimationConfig' = debouncedConfig
      /\ lastAccepted' = debouncedConfig
      /\ validationErrors' = validation.errors

ValidationEffect(debouncedConfig) ==
  LET validation == validateAnimationConfig(debouncedConfig)
  IN  IF validation.isValid
      THEN /\ currentAnimationConfig' = debouncedConfig
           /\ validationErrors' = << >>
           /\ lastAccepted' = debouncedConfig
      ELSE /\ validationErrors' = validation.errors
           /\ UNCHANGED << currentAnimationConfig, lastAccepted >>

(***************************************************************************)
(* component.tsx: onActionClick mounts the panel; the host unmounts it     *)
(***************************************************************************)
onActionClick ==
  /\ HostReady
  /\ ~mounted
  /\ mounted' = TRUE
  /\ config' = DEFAULT_CONFIG
  /\ selectedProperties' = DEFAULT_CONFIG.properties
  /\ customProperty' = ""
  /\ isLoading' = FALSE
  /\ debouncedValue' = DEFAULT_CONFIG
  /\ timers' = setTimeout(timers, DEFAULT_CONFIG, DebounceDelay)
  /\ ValidationEffect(DEFAULT_CONFIG)
  /\ UNCHANGED utilVars
  /\ returned' = [op |-> "onActionClick"]
  /\ burstLen' = 0
  /\ propagated' = 0
  /\ sinceChange' = 0
  /\ closedWithPending' = FALSE
  /\ UNCHANGED nextId

\* a plausible slip: the unmount leaves the debounce timer running
UnmountNoCleanup ==
  /\ HostReady
  /\ mounted
  /\ mounted' = FALSE
  /\ config' = DEFAULT_CONFIG
  /\ selectedProperties' = DEFAULT_CONFIG.properties
  /\ customProperty' = ""
  /\ validationErrors' = << >>
  /\ isLoading' = FALSE
  /\ debouncedValue' = DEFAULT_CONFIG
  /\ UNCHANGED utilVars
  /\ returned' = NoCall
  /\ burstLen' = 0
  /\ propagated' = 0
  /\ sinceChange' = 0
  /\ nextId' = 1
  /\ closedWithPending' = (timers # {})
  /\ UNCHANGED << timers, currentAnimationConfig, lastAccepted >>

\* unmount: the cleanup of useDebounce's effect runs, the state is dropped
Unmount ==
  /\ HostReady
  /\ mounted
  /\ mounted' = FALSE
  /\ timers' = clearTimeout(timers, config)
  /\ config' = DEFAULT_CONFIG
  /\ selectedProperties' = DEFAULT_CONFIG.properties
  /\ customProperty' = ""
  /\ validationErrors' = << >>
  /\ isLoading' = FALSE
  /\ debouncedValue' = DEFAULT_CONFIG
  /\ UNCHANGED utilVars
  /\ returned' = NoCall
  /\ burstLen' = 0
  /\ propagated' = 0
  /\ sinceChange' = 0
  /\ nextId' = 1
  /\ closedWithPending' = (timers # {})
  /\ UNCHANGED << currentAnimationConfig, lastAccepted >>

(***************************************************************************)
(* component.tsx: updateConfig and the handlers that call it               *)
(***************************************************************************)
\* a plausible slip: the merge without the clamping
NewConfigUnclamped(prev, updates, id) ==
  [ k \in DOMAIN prev |->
      IF k = "id" THEN id
      ELSE IF k \in DOMAIN updates THEN updates[k] ELSE prev[k] ]

\* { ...prev, ...updates } followed by the clamping of duration and delay;
\* the result is a new object, id
NewConfig(prev, updates, id) ==
  LET merged == [ k \in DOMAIN prev |->
                    IF k \in DOMAIN updates THEN updates[k] ELSE prev[k] ]
      d1 == IF "duration" \in DOMAIN updates
            THEN [merged EXCEPT !.duration =
                    Max(MIN_DURATION, Min(MAX_DURATION, updates.duration))]
            ELSE merged
      d2 == IF "delay" \in DOMAIN updates
            THEN [d1 EXCEPT !.delay =
                    Max(MIN_DELAY, Min(MAX_DELAY, updates.delay))]
            ELSE d1
  IN  [d2 EXCEPT !.id = id]

\* setConfig(prev => newConfig), the re-render and the re-run of the
\* useDebounce effect that the new config object causes
updateConfig(updates) ==
  /\ HostReady
  /\ nextId <= MaxEdits
  /\ config' = NewConfig(config, updates, nextId)
  /\ nextId' = nextId + 1
  /\ timers' = useDebounceEffect(timers, config, config')
  /\ burstLen' = IF timers = {} THEN 1 ELSE burstLen + 1
  /\ propagated' = IF timers = {} THEN 0 ELSE propagated
  /\ sinceChange' = 0
  /\ UNCHANGED utilVars
  /\ returned' = NoCall
  /\ UNCHANGED << mounted, debouncedValue, currentAnimationConfig,
                  lastAccepted, closedWithPending >>

SelectChange(updates) ==
  /\ mounted
  /\ updateConfig(updates)
  /\ UNCHANGED << selectedProperties, customProperty, validationErrors,
                  isLoading >>

\* DEFAULT_CONFIG[field]
DefaultOf(field) ==
  IF field = "duration" THEN DEFAULT_CONFIG.duration ELSE DEFAULT_CONFIG.delay

handleNumericInput(field, value) ==
  LET sanitized == sanitizeNumericInput(value, DefaultOf(field))
  IN  /\ mounted
      /\ updateConfig(IF field = "duration"
                      THEN [duration |-> sanitized]
                      ELSE [delay |-> sanitized])
      /\ UNCHANGED << selectedProperties, customProperty, validationErrors,
                      isLoading >>

\* value === 'infinite' ? 'infinite' : parseInt(value, 10) || 1
IterationsOf(value) ==
  LET parsed == ParseInt(value)
  IN  IF value = "infinite" THEN Infinite
      ELSE IF parsed.nan \/ parsed.n = 0 THEN Num(1) ELSE Num(parsed.n)

handleIterationsChange(value) ==
  /\ mounted
  /\ updateConfig([iterations |-> IterationsOf(value)])
  /\ UNCHANGED << selectedProperties, customProperty, validationErrors,
                  isLoading >>

\* the list toggleProperty computes
ToggledProperties(selected, property) ==
  IF Includes(selected, property)
  THEN Without(selected, property)
  ELSE Append(selected, property)

\* a plausible slip: updateConfig is given the list before the toggle
togglePropertyStaleList(property) ==
  LET newProperties == ToggledProperties(selectedProperties, property)
  IN  /\ mounted
      /\ selectedProperties' = newProperties
      /\ updateConfig([properties |-> selectedProperties])
      /\ UNCHANGED << customProperty, validationErrors, isLoading >>

toggleProperty(property) ==
  LET newProperties == ToggledProperties(selectedProperties, property)
  IN  /\ mounted
      /\ selectedProperties' = newProperties
      /\ updateConfig([properties |-> newProperties])
      /\ UNCHANGED << customProperty, validationErrors, isLoading >>

\* onChange of the custom-property input
setCustomProperty(value) ==
  /\ HostReady
  /\ mounted
  /\ customProperty # value
  /\ customProperty' = value
  /\ UNCHANGED utilVars
  /\ returned' = NoCall
  /\ UNCHANGED << mounted, config, selectedProperties, validationErrors,
                  isLoading, debouncedValue, timers, currentAnimationConfig,
                  nextId, lastAccepted, burstLen, propagated, sinceChange,
                  closedWithPending >>

\* a plausible slip: no check that the property is already selected
AddOutcomeNoExistsCheck(selected, sanitizedProperty) ==
  IF sanitizedProperty = "" THEN "empty"
  ELSE IF ~validateCustomProperty(sanitizedProperty).isValid THEN "invalid"
  ELSE "add"

\* what addCustomProperty does with the sanitized text: "empty", "invalid",
\* "exists" are its three early returns
AddOutcome(selected, sanitizedProperty) ==
  IF sanitizedProperty = "" THEN "empty"
  ELSE IF ~validateCustomProperty(sanitizedProperty).isValid THEN "invalid"
  ELSE IF Includes(selected, sanitizedProperty) THEN "exists"
  ELSE "add"

\* a plausible slip: the sanitized text is added without being validated
addCustomPropertyNoValidation ==
  LET sanitizedProperty ==
        sanitizeStringInput(customProperty, MAX_CUSTOM_PROPERTY_LENGTH)
      outcome == IF sanitizedProperty = "" THEN "empty"
                 ELSE IF Includes(selectedProperties, sanitizedProperty)
                      THEN "exists"
                      ELSE "add"
      newProperties == Append(selectedProperties, sanitizedProperty)
  IN  /\ HostReady
      /\ mounted
      /\ isLoading' = FALSE
      /\ \/ /\ outcome = "empty"
            /\ UNCHANGED utilVars
            /\ returned' = NoCall
            /\ UNCHANGED << mounted, config, selectedProperties,
                            customProperty, validationErrors, debouncedValue,
                            timers, currentAnimationConfig, nextId,
                            lastAccepted, burstLen, propagated, sinceChange,
                  closedWithPending >>
         \/ /\ outcome = "invalid"
            /\ Len(validationErrors) < MaxErrors
            /\ validationErrors' =
                 validationErrors
                 \o validateCustomProperty(sanitizedProperty).errors
            /\ UNCHANGED utilVars
            /\ returned' = NoCall
            /\ UNCHANGED << mounted, config, selectedProperties,
                            customProperty, debouncedValue, timers,
                            currentAnimationConfig, nextId, lastAccepted,
                            burstLen, propagated, sinceChange,
                            closedWithPending >>
         \/ /\ outcome = "exists"
            /\ UNCHANGED utilVars
            /\ returned' = NoCall
            /\ UNCHANGED << mounted, config, selectedProperties,
                            customProperty, validationErrors, debouncedValue,
                            timers, currentAnimationConfig, nextId,
                            lastAccepted, burstLen, propagated, sinceChange,
                  closedWithPending >>
         \/ /\ outcome = "add"
            /\ selectedProperties' = newProperties
            /\ updateConfig([properties |-> newProperties])
            /\ customProperty' = ""
            /\ UNCHANGED validationErrors

addCustomProperty ==
  LET sanitizedProperty ==
        sanitizeStringInput(customProperty, MAX_CUSTOM_PROPERTY_LENGTH)
      outcome == AddOutcome(selectedProperties, sanitizedProperty)
      newProperties == Append(selectedProperties, sanitizedProperty)
  IN  /\ HostReady
      /\ mounted
      /\ isLoading' = FALSE
      /\ \/ /\ outcome = "empty"
            /\ UNCHANGED utilVars
            /\ returned' = NoCall
            /\ UNCHANGED << mounted, config, selectedProperties,
                            customProperty, validationErrors, debouncedValue,
                            timers, currentAnimationConfig, nextId,
                            lastAccepted, burstLen, propagated, sinceChange,
                  closedWithPending >>
         \/ /\ outcome = "invalid"
            /\ Len(validationErrors) < MaxErrors
            /\ validationErrors' =
                 validationErrors
                 \o validateCustomProperty(sanitizedProperty).errors
            /\ UNCHANGED utilVars
            /\ returned' = NoCall
            /\ UNCHANGED << mounted, config, selectedProperties,
                            customProperty, debouncedValue, timers,
                            currentAnimationConfig, nextId, lastAccepted,
                            burstLen, propagated, sinceChange,
                            closedWithPending >>
         \/ /\ outcome = "exists"
            /\ UNCHANGED utilVars
            /\ returned' = NoCall
            /\ UNCHANGED << mounted, config, selectedProperties,
                            customProperty, validationErrors, debouncedValue,
                            timers, currentAnimationConfig, nextId,
                            lastAccepted, burstLen, propagated, sinceChange,
                  closedWithPending >>
         \/ /\ outcome = "add"
            /\ selectedProperties' = newProperties
            /\ updateConfig([properties |-> newProperties])
            /\ customProperty' = ""
            /\ UNCHANGED validationErrors

(***************************************************************************)
(* Time and the debounce timer                                             *)
(***************************************************************************)
Tick ==
  /\ HostReady
  /\ \E t \in timers : t.left > 0
  /\ timers' = { [t EXCEPT !.left = Max(0, t.left - TickMs)] : t \in timers }
  /\ sinceChange' = Min(DebounceDelay, sinceChange + TickMs)
  /\ UNCHANGED utilVars
  /\ returned' = NoCall
  /\ UNCHANGED << mounted, panelVars, debouncedValue, currentAnimationConfig,
                  nextId, lastAccepted, burstLen, propagated,
                  closedWithPending >>

\* the timer callback: setDebouncedValue(value); a new debouncedConfig
\* re-renders the panel and runs the validation effect.  A state update on
\* an unmounted panel is ignored.
DebounceFire ==
  \E t \in timers :
    /\ HostReady
    /\ t.left = 0
    /\ timers' = timers \ {t}
    /\ UNCHANGED utilVars
    /\ returned' = NoCall
    /\ UNCHANGED << mounted, config, selectedProperties, customProperty,
                    isLoading, nextId, burstLen, sinceChange,
                    closedWithPending >>
    /\ IF mounted
       THEN /\ debouncedValue' = t.value
            /\ propagated' = propagated + 1
            /\ IF t.value # debouncedValue
               THEN ValidationEffect(t.value)
               ELSE UNCHANGED << validationErrors, currentAnimationConfig,
                                 lastAccepted >>
       ELSE UNCHANGED << debouncedValue, propagated, validationErrors,
                         currentAnimationConfig, lastAccepted >>

(***************************************************************************)
(* component.tsx: onPromptSend                                             *)
(***************************************************************************)
\* a plausible slip: the length of contextElements is not looked at
PromptResultNoLengthCheck(slot, prompt) ==
  IF slot # Null /\ prompt.present
  THEN IF ~validateAnimationConfig(slot).isValid
       THEN Null
       ELSE [contextSnippets |->
               << [promptContextName |-> "Animation Implementation Request",
                   content |-> contextSuffix(slot)] >>]
  ELSE Null

PromptResult(slot, prompt) ==
  IF slot # Null /\ prompt.present /\ Len(prompt.contextElements) > 0
  THEN IF ~validateAnimationConfig(slot).isValid
       THEN Null
       ELSE [contextSnippets |->
               << [promptContextName |-> "Animation Implementation Request",
                   content |-> contextSuffix(slot)] >>]
  ELSE Null

\* a plausible slip: the hook reads the panel's live config, not the slot
onPromptSendLiveConfig(prompt) ==
  /\ HostReady
  /\ UNCHANGED utilVars
  /\ returned' = [op |-> "onPromptSend", prompt |-> prompt,
                  value |-> PromptResult(IF mounted THEN config
                                         ELSE currentAnimationConfig, prompt)]
  /\ UNCHANGED << mounted, panelVars, debouncedValue, timers,
                  currentAnimationConfig, nextId, lastAccepted, burstLen,
                  propagated, sinceChange, closedWithPending >>

onPromptSend(prompt) ==
  /\ HostReady
  /\ UNCHANGED utilVars
  /\ returned' = [op |-> "onPromptSend", prompt |-> prompt,
                  value |-> PromptResult(currentAnimationConfig, prompt)]
  /\ UNCHANGED << mounted, panelVars, debouncedValue, timers,
                  currentAnimationConfig, nextId, lastAccepted, burstLen,
                  propagated, sinceChange, closedWithPending >>

\* the host appends the snippets, if any, to the prompt
HostTakesResult ==
  /\ ~HostReady
  /\ UNCHANGED utilVars
  /\ returned' = NoCall
  /\ UNCHANGED << mounted, panelVars, debouncedValue, timers,
                  currentAnimationConfig, nextId, lastAccepted, burstLen,
                  propagated, sinceChange, closedWithPending >>

(***************************************************************************)
(* Specification                                                           *)
(***************************************************************************)
NoInput == [fn |-> "none"]
NoOutput == [stage |-> 0]

\* the plugin before the host called it
PluginIdle ==
  /\ mounted = FALSE
  /\ config = DEFAULT_CONFIG
  /\ selectedProperties = DEFAULT_CONFIG.properties
  /\ customProperty = ""
  /\ validationErrors = << >>
  /\ isLoading = FALSE
  /\ debouncedValue = DEFAULT_CONFIG
  /\ timers = {}
  /\ currentAnimationConfig = Null
  /\ nextId = 1
  /\ returned = NoCall
  /\ lastAccepted = Null
  /\ burstLen = 0
  /\ propagated = 0
  /\ sinceChange = 0
  /\ closedWithPending = FALSE

\* no utility function is being called
NoOperation == [op |-> "none"]

\* no utility function is being called
CallIdle ==
  /\ input = NoInput
  /\ output = NoOutput

\* the clock when the module is loaded
ClockIdle ==
  /\ now = 0
  /\ elapses = 0

\* private static cache = new Map()
CacheIdle ==
  /\ cache = << >>
  /\ last = NoOperation

NoFault == [at |-> "none"]

\* let inThrottle; no timer; lastRun = useRef(Date.now()) at the first render
ThrottleIdle ==
  /\ inThrottle = FALSE
  /\ throttleTimers = {}
  /\ lastRun = 0
  /\ runs = [throttle |-> << >>, useThrottle |-> << >>,
             lastCall |-> NoOperation]

\* private static errorCounts = new Map()
HandlerIdle ==
  /\ errorCounts = << >>
  /\ occurrences = << >>

\* the functions wrapped by debounce
DebouncedFunctions == { "trailing", "leading" }

NoBurst == [len |-> 0]

\* let timeout = null, in each wrapper
DebounceIdle ==
  /\ timeout = [ fn \in DebouncedFunctions |-> Null ]
  /\ bursts = [ fn \in DebouncedFunctions |->
                 [n |-> 0, open |-> NoBurst, closed |-> NoBurst] ]

UtilIdle ==
  /\ CallIdle
  /\ ClockIdle
  /\ CacheIdle
  /\ ThrottleIdle
  /\ HandlerIdle
  /\ fault = NoFault
  /\ DebounceIdle

Init ==
  /\ PluginIdle
  /\ UtilIdle

Next ==
  \/ onActionClick
  \/ Unmount
  \/ \E u \in SelectUpdates : SelectChange(u)
  \/ \E f \in {"duration", "delay"}, v \in NumericRaw : handleNumericInput(f, v)
  \/ \E v \in IterationsRaw : handleIterationsChange(v)
  \/ \E i \in 1..MaxCommon : toggleProperty(COMMON_PROPERTIES[i])
  \/ \E v \in CustomRaw : setCustomProperty(v)
  \/ addCustomProperty
  \/ Tick
  \/ DebounceFire
  \/ \E p \in Prompts : onPromptSend(p)
  \/ HostTakesResult

Spec == Init /\ [][Next]_vars

(***************************************************************************)
(* Helpers of the properties                                               *)
(***************************************************************************)
SentSnippets == returned.op = "onPromptSend" /\ returned.value # Null

SentContent == returned.value.contextSnippets[1].content

\* the positions of the "\n" characters of text
Newlines(text) == { j \in 1..Len(text) : CharAt(text, j) = "\n" }

\* the lines of text, a line ending at each "\n": line k runs from after the
\* (k-1)-th "\n" to before the k-th one, the last line to the end of text
LinesOf(text) ==
  LET nl     == Newlines(text)
      n      == Cardinality(nl)
      nth(k) == CHOOSE j \in nl : Cardinality({ q \in nl : q < j }) = k - 1
      from(k) == IF k = 1 THEN 1 ELSE nth(k - 1) + 1
      to(k)   == IF k = n + 1 THEN Len(text) ELSE nth(k) - 1
  IN  [ k \in 1..(n + 1) |-> SubSeq(text, from(k), to(k)) ]

NonBlankLines(text) == SelectSeq(LinesOf(text), LAMBDA l : l # "")

StartsWith(line, prefix) == SubSeq(line, 1, Len(prefix)) = prefix

\* position of the first occurrence of pat in text, 0 if there is none
IndexOf(text, pat) ==
  LET at == { i \in 1..(Len(text) - Len(pat) + 1) :
                SubSeq(text, i, i + Len(pat) - 1) = pat }
  IN  IF at = {} THEN 0 ELSE CHOOSE i \in at : \A j \in at : i <= j

NoDuplicates(arr) ==
  \A i, j \in 1..Len(arr) : arr[i] = arr[j] => i = j

\* the values of cfg are those of the default configuration
IsDefault(cfg) == [cfg EXCEPT !.id = 0] = DEFAULT_CONFIG

(***************************************************************************)
(* Properties                                                              *)
(***************************************************************************)
\* C1: whenever onPromptSend emits a fragment, the fragment is written from
\* the configuration most recently accepted by a completed debounced
\* validation pass; a configuration of the panel whose debounce timer is
\* still pending, or that failed validation, is not what the fragment shows.
C1_FragmentFromLastAccepted ==
  SentSnippets =>
    /\ lastAccepted # Null
    /\ SentContent = contextSuffix(lastAccepted)
    /\ (mounted /\ config # lastAccepted
        /\ SpecificationLines(config) # SpecificationLines(lastAccepted))
       => SentContent # contextSuffix(config)

\* a fragment is emitted while a later edit of the panel is still pending
C1_Witness ==
  /\ SentSnippets
  /\ mounted
  /\ timers # {}
  /\ lastAccepted.id = 1
  /\ config.id = 2
  /\ SpecificationLines(config) # SpecificationLines(lastAccepted)

\* C2: in every state the panel's config has duration within [0, 30000] and
\* delay within [0, 10000].
C2_DurationDelayInRange ==
  /\ config.duration \in MIN_DURATION..MAX_DURATION
  /\ config.delay \in MIN_DELAY..MAX_DELAY

\* both fields were edited with raw text above their maximum
C2_Witness ==
  /\ mounted
  /\ config.id = 2
  /\ config.duration = MAX_DURATION
  /\ config.delay = MAX_DELAY

\* C3: config.properties has no duplicate entry, and every entry that is not
\* in COMMON_PROPERTIES matches the name grammar and has 1 to 50 characters.
C3_PropertiesWellFormed ==
  /\ NoDuplicates(config.properties)
  /\ \A i \in 1..Len(config.properties) :
       ~Includes(COMMON_PROPERTIES, config.properties[i]) =>
         /\ cssPropertyRegex(config.properties[i])
         /\ Len(config.properties[i]) \in
              MIN_CUSTOM_PROPERTY_LENGTH..MAX_CUSTOM_PROPERTY_LENGTH

\* two custom properties were added, one of them cut to 50 characters
C3_Witness ==
  /\ mounted
  /\ Len(config.properties) = 4
  /\ \E i \in 1..4 : Len(config.properties[i]) = MAX_CUSTOM_PROPERTY_LENGTH
  /\ \E i \in 1..4 : config.properties[i] = "my-prop"

\* C4: config.iterations is 'infinite' or an integer in [1, 100].
C4_IterationsInDomain ==
  \/ config.iterations.kind = "infinite"
  \/ config.iterations.n \in 1..MAX_ITERATIONS

\* C5: once the panel is closed, the slot read by onPromptSend holds no
\* configuration.
C5_SlotEmptyWhenClosed ==
  ~mounted => currentAnimationConfig = Null

\* C6: trailing edge. A burst of value changes is followed by at most one
\* call of setDebouncedValue; once the debounce is idle again there has been
\* exactly one, and the debounced value is the last value of the burst; the
\* debounced value only ever changes to the latest value, and not before the
\* quiet period has passed since the last change.
C6_TrailingEdge ==
  /\ [](propagated <= 1)
  /\ []((mounted /\ burstLen >= 1 /\ timers = {})
          => (propagated = 1 /\ debouncedValue = config))
  /\ [][(mounted /\ mounted' /\ debouncedValue' # debouncedValue)
          => (debouncedValue' = config /\ sinceChange >= DebounceDelay)]_vars

\* a burst of two changes has been propagated
C6_Witness ==
  /\ mounted
  /\ burstLen = 2
  /\ timers = {}
  /\ propagated = 1
  /\ debouncedValue.id = 2

\* C7: at most one debounce timer exists, and a change of the config while a
\* timer is pending leaves exactly the newly scheduled timer.
C7_SingleTimer ==
  /\ [](Cardinality(timers) <= 1)
  /\ [][(mounted /\ mounted' /\ timers # {} /\ config' # config)
          => timers' = { [value |-> config', left |-> DebounceDelay] }]_vars

\* a second edit arrived while the timer of the first was pending
C7_Witness ==
  /\ mounted
  /\ burstLen = 2
  /\ sinceChange = 0
  /\ timers = { [value |-> config, left |-> DebounceDelay] }
  /\ debouncedValue.id = 0

\* C8: while no panel is mounted no debounce timer is pending, and nothing
\* writes the slot, the debounced value or the displayed errors.
C8_CloseCancelsTimer ==
  /\ [](~mounted => timers = {})
  /\ [][(~mounted /\ ~mounted')
          => UNCHANGED << currentAnimationConfig, lastAccepted,
                          debouncedValue, validationErrors >>]_vars

\* the panel was closed while a debounce timer was pending
C8_Witness ==
  /\ ~mounted
  /\ closedWithPending
  /\ timers = {}
  /\ currentAnimationConfig # Null

\* C9: onPromptSend returns null whenever the slot is empty or the prompt
\* has no selected elements; snippets are returned only when both are there.
C9_NullWithoutConfigOrSelection ==
  returned.op = "onPromptSend" =>
    /\ (currentAnimationConfig = Null
        \/ ~returned.prompt.present
        \/ Len(returned.prompt.contextElements) = 0)
       => returned.value = Null
    /\ returned.value # Null
       => /\ currentAnimationConfig # Null
          /\ returned.prompt.present
          /\ Len(returned.prompt.contextElements) > 0

\* a prompt with an empty selection was sent while a configuration is active
C9_Witness ==
  /\ returned.op = "onPromptSend"
  /\ returned.value = Null
  /\ currentAnimationConfig # Null
  /\ returned.prompt.present
  /\ returned.prompt.contextElements = << >>

ValidatedDurations == { 0 - 1, 0, 300, 30000, 30001, 50000 }
ValidatedDelays == { 0 - 1, 0, 10000, 10001 }
ValidatedIterations == { Infinite, Num(0), Num(1), Num(100), Num(101) }

\* 51 characters, the last one outside the grammar
LongBadName == "a-very-long-custom-property-name-that-never-ends-x$"

ValidatedProperties ==
  { << >>,
    << "opacity", "transform" >>,
    << "opacity", "opacity" >>,
    << "my-prop", "width", "my-prop" >>,
    << "opacity", "my$prop" >>,
    << "", "color", "9lives" >>,
    << LongBadName, "-x" >> }

ValidatedConfigs ==
  { [DEFAULT_CONFIG EXCEPT !.duration = d, !.delay = y, !.iterations = n,
                           !.properties = ps] :
      d \in ValidatedDurations, y \in ValidatedDelays,
      n \in ValidatedIterations, ps \in ValidatedProperties }

SanitizedNumbers == { 0, 7, 300, 50000 }
UnparsableRaw == { "abc", "", "-", "px12", "  " }
RawNumerics ==
  { ToString(d) : d \in SanitizedNumbers }
  \cup UnparsableRaw \cup { "-5", " 42", "12px", "007" }
Fallbacks == { 0 - 1, 0, 300 }

RawStrings == { "a b", "  my-prop ", "", "abc", " a", LongBadName \o "  " }
MaxLengths == { 2, 5, 50 }

\* names that match the grammar, the last one of 50 characters
FiftyName == "a-custom-property-name-of-exactly-fifty-characters"
GoodNames == { "a", "-", "-x", "my-prop", "Width2", FiftyName }

\* symbols outside the grammar
DisallowedSymbols == { " ", "$", "_", "." }

\* name with its i-th character replaced by sym
Replaced(name, i, sym) ==
  SubSeq(name, 1, i - 1) \o sym \o SubSeq(name, i + 1, Len(name))

SpoiledNames ==
  UNION { { Replaced(name, i, sym) :
              i \in 1..Len(name), sym \in DisallowedSymbols } :
          name \in GoodNames }

\* 51 characters that match the grammar
TooLongName == FiftyName \o "s"

CustomNames ==
  GoodNames \cup SpoiledNames
  \cup { "", TooLongName, LongBadName, "9lives" }

IterationValues ==
  { Infinite, Num(0 - 1), Num(0), Num(1), Num(2), Num(100), Num(101),
    Half(0), Half(1), Half(99), Half(100) }

Inputs ==
  { [fn |-> "validateAnimationConfig", config |-> c] : c \in ValidatedConfigs }
  \cup
  { [fn |-> "validateCustomProperty", property |-> n] : n \in CustomNames }
  \cup
  { [fn |-> "validateIterations", value |-> v] : v \in IterationValues }
  \cup
  { [fn |-> "sanitizeNumericInput", value |-> v, defaultValue |-> d] :
      v \in RawNumerics, d \in Fallbacks }
  \cup
  { [fn |-> "sanitizeStringInput", value |-> v, maxLength |-> n] :
      v \in RawStrings, n \in MaxLengths }

CallValidateAnimationConfig ==
  /\ input.fn = "validateAnimationConfig"
  /\ output.stage = 0
  /\ output' = [stage |-> 1, value |-> validateAnimationConfig(input.config)]
  /\ UNCHANGED << notCalled, input >>

CallValidateCustomProperty ==
  /\ input.fn = "validateCustomProperty"
  /\ output.stage = 0
  /\ output' = [stage |-> 1, value |-> validateCustomProperty(input.property)]
  /\ UNCHANGED << notCalled, input >>

CallValidateIterations ==
  /\ input.fn = "validateIterations"
  /\ output.stage = 0
  /\ output' = [stage |-> 1, value |-> validateIterations(input.value)]
  /\ UNCHANGED << notCalled, input >>

CallSanitizeNumericInput ==
  /\ input.fn = "sanitizeNumericInput"
  /\ output.stage = 0
  /\ output' = [stage |-> 1,
                value |-> sanitizeNumericInput(input.value, input.defaultValue)]
  /\ UNCHANGED << notCalled, input >>

CallSanitizeStringInput ==
  /\ input.fn = "sanitizeStringInput"
  /\ output.stage = 0
  /\ output' = [stage |-> 1,
                value |-> sanitizeStringInput(input.value, input.maxLength)]
  /\ UNCHANGED << notCalled, input >>

\* the sanitizer is called on what it returned: the number as String(number)
SanitizeAgain ==
  /\ input.fn \in { "sanitizeNumericInput", "sanitizeStringInput" }
  /\ output.stage = 1
  /\ output' =
       [stage |-> 2, value |-> output.value,
        again |-> IF input.fn = "sanitizeNumericInput"
                  THEN sanitizeNumericInput(ToString(output.value),
                                            input.defaultValue)
                  ELSE sanitizeStringInput(output.value, input.maxLength)]
  /\ UNCHANGED << notCalled, input >>

CallInit ==
  /\ PluginIdle
  /\ input \in Inputs
  /\ output = NoOutput
  /\ ClockIdle
  /\ CacheIdle
  /\ ThrottleIdle
  /\ HandlerIdle
  /\ fault = NoFault
  /\ DebounceIdle

CallNext ==
  \/ CallValidateAnimationConfig
  \/ CallValidateCustomProperty
  \/ CallValidateIterations
  \/ CallSanitizeNumericInput
  \/ CallSanitizeStringInput
  \/ SanitizeAgain

CallSpec == CallInit /\ [][CallNext]_vars

(***************************************************************************)
(* utils/performance.ts: MemoizationCache and memoize                      *)
(***************************************************************************)
\* number of times the clock advances in one behaviour
MaxElapses == 3

DEFAULT_TTL == 5 * 60 * 1000

\* a value that is not null
Value(v) == [tag |-> "value", v |-> v]

\* the ttl argument: undefined, or a number of ms
Undefined == [given |-> FALSE]
Ms(n) == [given |-> TRUE, ms |-> n]

\* ttl: number = this.DEFAULT_TTL
TtlOf(ttl) == IF ttl.given THEN ttl.ms ELSE DEFAULT_TTL

\* Map.prototype.set and Map.prototype.delete
MapSet(map, key, entry) ==
  [ k \in DOMAIN map \cup {key} |-> IF k = key THEN entry ELSE map[k] ]

MapDelete(map, key) == [ k \in DOMAIN map \ {key} |-> map[k] ]

\* a plausible slip: the expired entry is left in the cache
MemoizationCache_getNoEvict(map, key, ttl, t) ==
  IF key \notin DOMAIN map THEN [value |-> Null, cache |-> map]
  ELSE IF t - map[key].timestamp > TtlOf(ttl)
       THEN [value |-> Null, cache |-> map]
       ELSE [value |-> map[key].value, cache |-> map]

\* MemoizationCache.get at time t: what it returns and the cache it leaves
MemoizationCache_get(map, key, ttl, t) ==
  IF key \notin DOMAIN map THEN [value |-> Null, cache |-> map]
  ELSE IF t - map[key].timestamp > TtlOf(ttl)
       THEN [value |-> Null, cache |-> MapDelete(map, key)]
       ELSE [value |-> map[key].value, cache |-> map]

MemoizationCache_set(map, key, value, t) ==
  MapSet(map, key, [value |-> value, timestamp |-> t])

MemoizationCache_clearExpired(map, ttl, t) ==
  [ k \in { q \in DOMAIN map : ~(t - map[q].timestamp > TtlOf(ttl)) } |-> map[k] ]

\* JSON.stringify(args) of a list of numbers
KeyOf(args) ==
  "[" \o Join([ i \in DOMAIN args |-> ToString(args[i]) ], ",") \o "]"

\* the functions wrapped by memoize, without a keyGenerator: f with a ttl of
\* 2 ms, g with the default ttl
Wrapped == { [fn |-> "f", ttl |-> Ms(2)], [fn |-> "g", ttl |-> Undefined] }

ArgLists == { << 1 >>, << 2 >> }

\* fn(...args): f returns null for 1
Underlying(fn, args) ==
  IF fn = "f" /\ args = << 1 >> THEN Null ELSE Value(fn \o KeyOf(args))

\* the function returned by memoize, called at time t: whether fn was
\* invoked, what the call returns and the cache it leaves
memoize(map, w, args, t) ==
  LET key    == KeyOf(args)
      got    == MemoizationCache_get(map, key, w.ttl, t)
      result == Underlying(w.fn, args)
  IN  IF got.value # Null
      THEN [invoked |-> FALSE, value |-> got.value, cache |-> got.cache]
      ELSE [invoked |-> TRUE, value |-> result,
            cache |-> MemoizationCache_set(got.cache, key, result, t)]

CacheKeys == { KeyOf(a) : a \in ArgLists }
TtlArgs == { Ms(2), Undefined }
SetValues == { Value("s") }
ClockJumps == { 1, DEFAULT_TTL - 1 }

Elapse(d) ==
  /\ elapses < MaxElapses
  /\ now' = now + d
  /\ elapses' = elapses + 1
  /\ UNCHANGED << notCached, cacheVars >>

GetCalled(key, ttl) ==
  LET got == MemoizationCache_get(cache, key, ttl, now)
  IN  /\ cache' = got.cache
      /\ last' = [op |-> "get", key |-> key, ttl |-> TtlOf(ttl), at |-> now,
                  had |-> key \in DOMAIN cache,
                  entry |-> IF key \in DOMAIN cache THEN cache[key] ELSE Null,
                  value |-> got.value]
      /\ UNCHANGED << notCached, clockVars >>

SetCalled(key, value) ==
  /\ cache' = MemoizationCache_set(cache, key, value, now)
  /\ last' = [op |-> "set", key |-> key, at |-> now]
  /\ UNCHANGED << notCached, clockVars >>

ClearCalled ==
  /\ cache' = << >>
  /\ last' = [op |-> "clear", at |-> now]
  /\ UNCHANGED << notCached, clockVars >>

ClearExpiredCalled(ttl) ==
  /\ cache' = MemoizationCache_clearExpired(cache, ttl, now)
  /\ last' = [op |-> "clearExpired", at |-> now]
  /\ UNCHANGED << notCached, clockVars >>

\* a call of a memoized function; follows tells that the operation before
\* it was a call of the same function with the same key that invoked fn
MemoizedCalled(w, args) ==
  LET call == memoize(cache, w, args, now)
      key  == KeyOf(args)
      follows == /\ last.op = "memoized"
                 /\ last.fn = w.fn
                 /\ last.key = key
                 /\ last.invoked
  IN  /\ cache' = call.cache
      /\ last' = [op |-> "memoized", fn |-> w.fn, key |-> key,
                  ttl |-> TtlOf(w.ttl), at |-> now,
                  invoked |-> call.invoked, value |-> call.value,
                  follows |-> follows,
                  gap |-> IF follows THEN now - last.at ELSE 0,
                  first |-> IF follows THEN last.value ELSE Null]
      /\ UNCHANGED << notCached, clockVars >>

CacheInit ==
  /\ PluginIdle
  /\ UtilIdle

CacheNext ==
  \/ \E d \in ClockJumps : Elapse(d)
  \/ \E k \in CacheKeys, ttl \in TtlArgs : GetCalled(k, ttl)
  \/ \E k \in CacheKeys, v \in SetValues : SetCalled(k, v)
  \/ ClearCalled
  \/ \E ttl \in TtlArgs : ClearExpiredCalled(ttl)
  \/ \E w \in Wrapped, a \in ArgLists : MemoizedCalled(w, a)

CacheSpec == CacheInit /\ [][CacheNext]_vars

(***************************************************************************)
(* utils/performance.ts: throttle and useThrottle                          *)
(***************************************************************************)
\* the time, in ms, up to which the throttled callbacks are followed
MaxWait == 6

\* throttle(func, limit) and useThrottle(callback, delay)
ThrottleLimit == 2
UseThrottleDelay == 3

CallbackArgs == { "a", "b" }

\* a plausible slip: the flag is not set when func has run
throttleNoFlag(flag, pending, limit, t) ==
  IF ~flag
  THEN [ran |-> TRUE, inThrottle |-> flag, timers |-> pending \cup {t + limit}]
  ELSE [ran |-> FALSE, inThrottle |-> flag, timers |-> pending]

\* the function returned by throttle, called at time t: whether func ran,
\* the flag and the pending timers it leaves
throttle(flag, pending, limit, t) ==
  IF ~flag
  THEN [ran |-> TRUE, inThrottle |-> TRUE, timers |-> pending \cup {t + limit}]
  ELSE [ran |-> FALSE, inThrottle |-> flag, timers |-> pending]

\* the function returned by useThrottle, called at time t
useThrottle(ref, delay, t) ==
  IF t - ref >= delay
  THEN [ran |-> TRUE, lastRun |-> t]
  ELSE [ran |-> FALSE, lastRun |-> ref]

\* the history after a call at time t: the call, the time since the
\* callback last ran, and the call appended to the runs if it ran
Ran(h, arg, ran, t) ==
  LET before == runs[h]
      call == [at |-> t, arg |-> arg, ran |-> ran,
               first |-> before = << >>,
               since |-> IF before = << >> THEN 0
                         ELSE t - before[Len(before)].at]
  IN  [runs EXCEPT ![h] = IF ran THEN Append(before, call) ELSE before,
                   !.lastCall = [h |-> h] @@ call]

ThrottledCalled(arg) ==
  LET call == throttle(inThrottle, throttleTimers, ThrottleLimit, now)
  IN  /\ inThrottle' = call.inThrottle
      /\ throttleTimers' = call.timers
      /\ runs' = Ran("throttle", arg, call.ran, now)
      /\ UNCHANGED << notThrottled, clockVars, lastRun >>

\* setTimeout(() => (inThrottle = false), limit): not before it is due
ThrottleTimerFire ==
  \E due \in throttleTimers :
    /\ now >= due
    /\ inThrottle' = FALSE
    /\ throttleTimers' = throttleTimers \ {due}
    /\ UNCHANGED << notThrottled, clockVars, lastRun, runs >>

UseThrottleCalled(arg) ==
  LET call == useThrottle(lastRun, UseThrottleDelay, now)
  IN  /\ lastRun' = call.lastRun
      /\ runs' = Ran("useThrottle", arg, call.ran, now)
      /\ UNCHANGED << notThrottled, clockVars, inThrottle, throttleTimers >>

Wait ==
  /\ now < MaxWait
  /\ now' = now + 1
  /\ UNCHANGED << notThrottled, throttleVars, elapses >>

ThrottleInit ==
  /\ PluginIdle
  /\ UtilIdle

ThrottleNext ==
  \/ \E a \in CallbackArgs : ThrottledCalled(a)
  \/ ThrottleTimerFire
  \/ \E a \in CallbackArgs : UseThrottleCalled(a)
  \/ Wait

ThrottleSpec == ThrottleInit /\ [][ThrottleNext]_vars

(***************************************************************************)
(* utils/error-handling.ts: DebouncedErrorHandler                          *)
(***************************************************************************)
\* number of occurrences of one key in one run
MaxRun == 5

DEBOUNCE_TIME == 5000
MAX_ERRORS_PER_PERIOD == 3

\* a plausible slip: the count is not compared with the cap
shouldLogErrorNoCap(counts, errorKey, t) ==
  IF errorKey \notin DOMAIN counts
  THEN [log |-> TRUE,
        errorCounts |-> MapSet(counts, errorKey,
                               [count |-> 1, lastOccurrence |-> t])]
  ELSE IF t - counts[errorKey].lastOccurrence > DEBOUNCE_TIME
       THEN [log |-> TRUE,
             errorCounts |-> MapSet(counts, errorKey,
                                    [count |-> 1, lastOccurrence |-> t])]
       ELSE [log |-> TRUE,
             errorCounts |->
               MapSet(counts, errorKey,
                      [count |-> counts[errorKey].count + 1,
                       lastOccurrence |-> t])]

\* shouldLogError at time t: what it returns and the errorCounts it leaves
shouldLogError(counts, errorKey, t) ==
  IF errorKey \notin DOMAIN counts
  THEN [log |-> TRUE,
        errorCounts |-> MapSet(counts, errorKey,
                               [count |-> 1, lastOccurrence |-> t])]
  ELSE IF t - counts[errorKey].lastOccurrence > DEBOUNCE_TIME
       THEN [log |-> TRUE,
             errorCounts |-> MapSet(counts, errorKey,
                                    [count |-> 1, lastOccurrence |-> t])]
       ELSE [log |-> counts[errorKey].count + 1 <= MAX_ERRORS_PER_PERIOD,
             errorCounts |->
               MapSet(counts, errorKey,
                      [count |-> counts[errorKey].count + 1,
                       lastOccurrence |-> t])]

\* the keys component.tsx reports with
ErrorKeys == { "prompt-processing", "config-update" }

HandlerJumps == { 1, DEBOUNCE_TIME }

\* the run of occurrences of errorKey after an occurrence at time t: a run
\* goes on while each occurrence is at most 5000 ms after the one before;
\* prior and priorLogged are the length of the key's run and the number of
\* its logged occurrences before this one, gap the time since the key's
\* occurrence before this one
Occurred(errorKey, log, t) ==
  LET known  == errorKey \in DOMAIN occurrences
      goesOn == /\ known
                /\ t - occurrences[errorKey].at <= 5000
      before == IF goesOn THEN occurrences[errorKey]
                ELSE [len |-> 0, logged |-> 0]
  IN  MapSet(occurrences, errorKey,
             [len |-> before.len + 1,
              logged |-> before.logged + (IF log THEN 1 ELSE 0),
              at |-> t, log |-> log,
              prior |-> IF known THEN occurrences[errorKey].len ELSE 0,
              priorLogged |-> IF known THEN occurrences[errorKey].logged
                              ELSE 0,
              gap |-> IF known THEN t - occurrences[errorKey].at ELSE 0])

\* the length the run of errorKey would have with an occurrence now
RunLength(errorKey) ==
  IF errorKey \in DOMAIN occurrences /\ now - occurrences[errorKey].at <= 5000
  THEN occurrences[errorKey].len + 1
  ELSE 1

\* a plausible slip: a dropped occurrence leaves the entry of its key alone
logErrorDroppedUncounted(errorKey) ==
  LET should == shouldLogError(errorCounts, errorKey, now)
  IN  /\ RunLength(errorKey) <= MaxRun
      /\ errorCounts' = IF should.log THEN should.errorCounts ELSE errorCounts
      /\ occurrences' = Occurred(errorKey, should.log, now)

\* logError(errorKey, message, error): logger.error is called if log
logError(errorKey) ==
  LET should == shouldLogError(errorCounts, errorKey, now)
  IN  /\ RunLength(errorKey) <= MaxRun
      /\ errorCounts' = should.errorCounts
      /\ occurrences' = Occurred(errorKey, should.log, now)

LogErrorCalled(errorKey) ==
  /\ logError(errorKey)
  /\ UNCHANGED << notHandled, clockVars >>

HandlerInit ==
  /\ PluginIdle
  /\ UtilIdle

HandlerNext ==
  \/ \E k \in ErrorKeys : LogErrorCalled(k)
  \/ \E d \in HandlerJumps : Elapse(d)

HandlerSpec == HandlerInit /\ [][HandlerNext]_vars

(***************************************************************************)
(* utils/performance.ts: debounce                                          *)
(***************************************************************************)
\* the time, in ms, up to which the debounced functions are followed, and
\* the number of calls of each
MaxTime == 5
MaxCalls == 3

\* debounce(func, wait) and debounce(func, wait, true)
DebounceWait == 2

Debounced ==
  { [fn |-> "trailing", immediate |-> FALSE],
    [fn |-> "leading", immediate |-> TRUE] }

\* the function returned by debounce, called at time t with args: the
\* pending timer is cleared and a new one set, and func is invoked now if
\* callNow.  slot is the timer that timeout names, Null if there is none
debounce(slot, immediate, wait, args, t) ==
  [timeout |-> [due |-> t + wait, args |-> args],
   callNow |-> immediate /\ slot = Null]

\* a plausible slip: later invokes func whatever immediate is
laterAlwaysInvokes(slot, immediate) ==
  [timeout |-> Null, invoked |-> TRUE, args |-> slot.args]

\* const later: timeout = null; if (!immediate) func(...args)
later(slot, immediate) ==
  [timeout |-> Null, invoked |-> ~immediate, args |-> slot.args]

\* the bursts of fn after a call at time t: the call goes on the open burst
\* if it is less than wait ms after the call before it, and opens a new
\* burst otherwise
Called(fn, args, callNow, t) ==
  LET b     == bursts[fn]
      call  == [at |-> t, args |-> args]
      joins == /\ b.open # NoBurst
               /\ t - b.open.last.at < DebounceWait
      invocation == IF callNow THEN << call >> ELSE << >>
  IN  [bursts EXCEPT ![fn] =
         [n |-> b.n + 1,
          open |-> IF joins
                   THEN [len |-> b.open.len + 1, first |-> b.open.first,
                         last |-> call,
                         invoked |-> b.open.invoked \o invocation]
                   ELSE [len |-> 1, first |-> call, last |-> call,
                         invoked |-> invocation],
          closed |-> IF joins THEN b.closed ELSE b.open]]

\* a timer that is due runs before anything else does
TimerDue(fn) == timeout[fn] # Null /\ timeout[fn].due <= now

DebouncedCalled(w, args) ==
  LET call == debounce(timeout[w.fn], w.immediate, DebounceWait, args, now)
  IN  /\ bursts[w.fn].n < MaxCalls
      /\ ~TimerDue(w.fn)
      /\ timeout' = [timeout EXCEPT ![w.fn] = call.timeout]
      /\ bursts' = Called(w.fn, args, call.callNow, now)
      /\ UNCHANGED << notDebounced, clockVars >>

\* setTimeout(later, wait): later runs when the timer is due
DebounceTimerFire(w) ==
  LET ran == later(timeout[w.fn], w.immediate)
  IN  /\ TimerDue(w.fn)
      /\ timeout' = [timeout EXCEPT ![w.fn] = ran.timeout]
      /\ bursts' =
           IF ran.invoked
           THEN [bursts EXCEPT ![w.fn].open.invoked =
                   Append(@, [at |-> now, args |-> ran.args])]
           ELSE bursts
      /\ UNCHANGED << notDebounced, clockVars >>

DebounceWaits ==
  /\ now < MaxTime
  /\ \A fn \in DebouncedFunctions : ~TimerDue(fn)
  /\ now' = now + 1
  /\ UNCHANGED << notDebounced, debounceVars, elapses >>

DebounceInit ==
  /\ PluginIdle
  /\ UtilIdle

DebounceNext ==
  \/ \E w \in Debounced, a \in CallbackArgs : DebouncedCalled(w, a)
  \/ \E w \in Debounced : DebounceTimerFire(w)
  \/ DebounceWaits

DebounceSpec == DebounceInit /\ [][DebounceNext]_vars

(***************************************************************************)
(* component.tsx: internal faults in onActionClick and onPromptSend        *)
(***************************************************************************)
\* what onActionClick hands to the host
Panel == [ui |-> "AnimationPanel"]
Fallback == [ui |-> "Plugin Error"]

\* the statements of the try blocks in which a fault is raised
PromptFaultPoints == { "validateAnimationConfig", "logger.info" }
OpenFaultPoints == { "logger.info", "endMeasure" }

\* a fault inside the try of onPromptSend: the catch reports it through
\* DebouncedErrorHandler and returns null
onPromptSendFault(prompt, point) ==
  /\ HostReady
  /\ currentAnimationConfig # Null
  /\ prompt.present
  /\ Len(prompt.contextElements) > 0
  /\ logError("prompt-processing")
  /\ returned' = [op |-> "onPromptSend", prompt |-> prompt, value |-> Null]
  /\ fault' = [at |-> "onPromptSend", point |-> point, escaped |-> FALSE,
               result |-> Null]
  /\ UNCHANGED << mounted, panelVars, debouncedValue, timers,
                  currentAnimationConfig, nextId, lastAccepted, burstLen,
                  propagated, sinceChange, closedWithPending, callVars,
                  clockVars, cacheVars, throttleVars, debounceVars >>

\* a fault inside the try of onActionClick: the catch returns the fallback
\* UI, and no AnimationPanel is rendered
onActionClickFault(point) ==
  /\ HostReady
  /\ ~mounted
  /\ returned' = [op |-> "onActionClick"]
  /\ fault' = [at |-> "onActionClick", point |-> point, escaped |-> FALSE,
               result |-> Fallback]
  /\ UNCHANGED << mounted, panelVars, debouncedValue, timers,
                  currentAnimationConfig, nextId, lastAccepted, burstLen,
                  propagated, sinceChange, closedWithPending, callVars,
                  clockVars, cacheVars, throttleVars, handlerVars,
                  debounceVars >>

\* a fault while the panel is rendered: <AnimationPanel /> only creates the
\* element, onActionClick has returned it when the host calls AnimationPanel,
\* so the fault is raised outside the try, in the host
RenderFault ==
  /\ HostReady
  /\ ~mounted
  /\ returned' = [op |-> "onActionClick"]
  /\ fault' = [at |-> "render", point |-> "AnimationPanel", escaped |-> TRUE,
               result |-> Panel]
  /\ UNCHANGED << mounted, panelVars, debouncedValue, timers,
                  currentAnimationConfig, nextId, lastAccepted, burstLen,
                  propagated, sinceChange, closedWithPending, callVars,
                  clockVars, cacheVars, throttleVars, handlerVars,
                  debounceVars >>

FaultInit ==
  /\ PluginIdle
  /\ UtilIdle

FaultNext ==
  \/ onActionClick
  \/ Unmount
  \/ \E u \in SelectUpdates : SelectChange(u)
  \/ Tick
  \/ DebounceFire
  \/ \E p \in Prompts : onPromptSend(p)
  \/ HostTakesResult
  \/ \E p \in Prompts, at \in PromptFaultPoints : onPromptSendFault(p, at)
  \/ \E at \in OpenFaultPoints : onActionClickFault(at)
  \/ RenderFault

FaultSpec == FaultInit /\ [][FaultNext]_vars

(***************************************************************************)
(* Helpers of the properties of the validators and sanitizers              *)
(***************************************************************************)
Validated == input.fn = "validateAnimationConfig" /\ output.stage = 1

Contains(text, pat) == IndexOf(text, pat) > 0

\* every entry of arr that is not in COMMON_PROPERTIES
CustomOf(arr) == SelectSeq(arr, LAMBDA p : ~Includes(COMMON_PROPERTIES, p))

\* the number of entries of arr that satisfy Test
Count(arr, Test(_)) == Cardinality({ k \in DOMAIN arr : Test(arr[k]) })

(***************************************************************************)
(* C11: a configuration is reported valid only if duration is in           *)
(* [0, 30000], delay in [0, 10000], iterations 'infinite' or in [1, 100],  *)
(* properties non-empty and free of duplicates, and every non-common       *)
(* property matches the name grammar; with properties = [] the result is   *)
(* invalid and carries the "At least one property" message.                *)
(* The validator has no duplicate check: ["opacity", "opacity"] is valid.  *)
(***************************************************************************)
C11_ValidOnlyIfWellFormed ==
  Validated =>
    LET cfg == input.config
    IN  /\ output.value.isValid =>
             /\ cfg.duration \in 0..30000
             /\ cfg.delay \in 0..10000
             /\ cfg.iterations = Infinite \/ cfg.iterations.n \in 1..100
             /\ NoDuplicates(cfg.properties)
             /\ \A k \in DOMAIN cfg.properties :
                  \/ Includes(COMMON_PROPERTIES, cfg.properties[k])
                  \/ cssPropertyRegex(cfg.properties[k])
             /\ cfg.properties # << >>
        /\ cfg.properties = << >> =>
             /\ ~output.value.isValid
             /\ Includes(output.value.errors,
                         "At least one property must be selected for animation")

(***************************************************************************)
(* C12: with duration > 30000 the result is invalid and the message about  *)
(* the maximum of the duration, the one that mentions 30000, is in the     *)
(* errors exactly once; the default configuration with duration 50000 has  *)
(* exactly one error.                                                      *)
(***************************************************************************)
DurationMaxMessage(e) ==
  StartsWith(e, "Duration cannot exceed") /\ Contains(e, "30000")

C12_DurationAboveMaximum ==
  Validated =>
    /\ input.config.duration > 30000 =>
         /\ ~output.value.isValid
         /\ Count(output.value.errors, DurationMaxMessage) = 1
    /\ input.config = [DEFAULT_CONFIG EXCEPT !.duration = 50000] =>
         Len(output.value.errors) = 1

C12_Witness ==
  /\ Validated
  /\ input.config = [DEFAULT_CONFIG EXCEPT !.duration = 50000]
  /\ output.value.errors = << "Duration cannot exceed 30000ms (30s)" >>


(***************************************************************************)
(* C13: the errors are ordered: duration, delay, iterations, the           *)
(* properties-empty message, then the custom properties in array order.    *)
(***************************************************************************)
\* the place of an entry in the order of the fields, 0 for an unknown entry
GroupOf(e) ==
  IF StartsWith(e, "Duration ") THEN 1
  ELSE IF StartsWith(e, "Delay ") THEN 2
  ELSE IF StartsWith(e, "Iterations ") THEN 3
  ELSE IF e = "At least one property must be selected for animation" THEN 4
  ELSE IF StartsWith(e, "Invalid custom property \"") THEN 5
  ELSE 0

FieldOrder(errors) ==
  /\ \A k \in DOMAIN errors : GroupOf(errors[k]) \in 1..5
  /\ \A i, j \in DOMAIN errors : i < j => GroupOf(errors[i]) <= GroupOf(errors[j])

CustomEntries(errors) == SelectSeq(errors, LAMBDA e : GroupOf(e) = 5)

\* what tells the message of each check that name fails, in check order
FailedChecks(name) ==
  (IF name = "" THEN << "cannot be empty" >> ELSE << >>)
  \o (IF Len(name) > 50 THEN << "cannot exceed 50 characters" >> ELSE << >>)
  \o (IF ~cssPropertyRegex(name) THEN << "must be a valid CSS property" >>
      ELSE << >>)

\* the custom properties that fail a check, in array order
FailingCustom(arr) == SelectSeq(CustomOf(arr), LAMBDA p : FailedChecks(p) # << >>)

\* C13 as stated: every failed check of a custom property has an entry of
\* its own.  One property that fails two checks has one entry only.
C13_EntryPerFailedCheck ==
  Validated =>
    LET errors == output.value.errors
        custom == CustomOf(input.config.properties)
    IN  /\ FieldOrder(errors)
        /\ Len(CustomEntries(errors)) =
             Cardinality({ ck \in (DOMAIN custom) \X (1..3) :
                             ck[2] <= Len(FailedChecks(custom[ck[1]])) })

\* C13, amended: every custom property that fails has one entry, which
\* begins with its name and holds the messages of its failed checks in the
\* order empty, too long, bad grammar.
C13_EntryPerFailedProperty ==
  Validated =>
    LET errors  == output.value.errors
        entries == CustomEntries(errors)
        failing == FailingCustom(input.config.properties)
    IN  /\ FieldOrder(errors)
        /\ Len(entries) = Len(failing)
        /\ \A k \in DOMAIN entries :
             LET checks == FailedChecks(failing[k])
             IN  /\ StartsWith(entries[k],
                               "Invalid custom property \"" \o failing[k]
                               \o "\": ")
                 /\ \A c \in DOMAIN checks : Contains(entries[k], checks[c])
                 /\ \A c, d \in DOMAIN checks :
                      c < d => IndexOf(entries[k], checks[c])
                               < IndexOf(entries[k], checks[d])

C13_Witness ==
  /\ Validated
  /\ input.config.properties = << LongBadName, "-x" >>
  /\ input.config.duration < 0
  /\ input.config.delay > 10000
  /\ input.config.iterations = Num(0)
  /\ Len(output.value.errors) = 4

(***************************************************************************)
(* C19: sanitizeNumericInput returns an integer >= 0 for every raw string  *)
(* and every fallback: d when raw denotes an integer d >= 0, the fallback  *)
(* when raw cannot be parsed.                                              *)
(***************************************************************************)
SanitizedNumeric == input.fn = "sanitizeNumericInput" /\ output.stage >= 1

\* C19 as stated.  An unparsable raw string with a negative fallback
\* returns the negative fallback.
C19_NonNegativeForEveryFallback ==
  SanitizedNumeric =>
    /\ output.value \in Nat
    /\ \A d \in SanitizedNumbers : input.value = ToString(d) => output.value = d
    /\ input.value \in UnparsableRaw => output.value = input.defaultValue

\* C19, amended: the result is >= 0 when the fallback is
C19_NonNegativeForNonNegativeFallback ==
  SanitizedNumeric =>
    /\ input.defaultValue >= 0 => output.value \in Nat
    /\ \A d \in SanitizedNumbers : input.value = ToString(d) => output.value = d
    /\ input.value \in UnparsableRaw => output.value = input.defaultValue

C19_Witness ==
  /\ SanitizedNumeric
  /\ input.value = "-5"
  /\ input.defaultValue = 300
  /\ output.value = 0

(***************************************************************************)
(* C20: the sanitizers are idempotent: sanitizing what a sanitizer         *)
(* returned gives the same value.  sanitizeStringInput trims before it     *)
(* cuts, so the cut can leave white space at the end: "a b" cut to 2 is    *)
(* "a ", and that sanitizes to "a".                                        *)
(***************************************************************************)
C20_SanitizersIdempotent ==
  output.stage = 2 => output.again = output.value


(***************************************************************************)
(* C14: MemoizationCache.get returns the stored value only if the age of   *)
(* the entry is strictly below ttl; at age >= ttl it returns null and the  *)
(* entry is removed.                                                       *)
(***************************************************************************)
\* the last operation was a get of a key that had an entry
GotEntry == last.op = "get" /\ last.had

AgeAtGet == last.at - last.entry.timestamp

\* C14 as stated.  The test is age > ttl: at age = ttl the entry is served.
C14_HitOnlyBelowTtl ==
  GotEntry =>
    /\ last.value # Null => AgeAtGet < last.ttl
    /\ AgeAtGet >= last.ttl =>
         /\ last.value = Null
         /\ last.key \notin DOMAIN cache

\* C14, amended: the entry is served up to and including age = ttl, and is
\* a miss and removed at age > ttl.
C14_HitUpToTtl ==
  GotEntry =>
    /\ AgeAtGet <= last.ttl =>
         /\ last.value = last.entry.value
         /\ last.key \in DOMAIN cache
         /\ cache[last.key] = last.entry
    /\ AgeAtGet > last.ttl =>
         /\ last.value = Null
         /\ last.key \notin DOMAIN cache

C14_Witness ==
  /\ GotEntry
  /\ last.ttl = DEFAULT_TTL
  /\ AgeAtGet = DEFAULT_TTL + 1
  /\ last.entry.value # Null
  /\ last.value = Null

(***************************************************************************)
(* C15: of two calls of a memoized function with the same key, the second  *)
(* within the TTL of the first, only the first invokes the function and    *)
(* the second returns the cached value, whatever the function returns; a   *)
(* call after the TTL invokes the function again.                          *)
(* A cached null is taken for a miss: a function that returns null is      *)
(* invoked by every call.                                                  *)
(***************************************************************************)
C15_SecondCallFromCache ==
  (last.op = "memoized" /\ last.follows) =>
    /\ last.gap < last.ttl => ~last.invoked /\ last.value = last.first
    /\ last.gap > last.ttl => last.invoked


(***************************************************************************)
(* C16: a throttled callback (throttle and useThrottle) runs at most once  *)
(* per interval: any two runs are at least the interval apart, and a call  *)
(* that arrives inside the interval is dropped, never run later.           *)
(***************************************************************************)
IntervalOf(h) == IF h = "throttle" THEN ThrottleLimit ELSE UseThrottleDelay

C17_ThreeLoggedPerRun ==
  \A k \in DOMAIN occurrences :
    LET run == occurrences[k]
    IN  /\ run.logged <= 3
        /\ run.logged = Min(run.len, 3)
        /\ run.len > 3 => ~run.log

C17_Witness ==
  \E k \in DOMAIN occurrences :
    /\ occurrences[k].len = 5
    /\ occurrences[k].logged = 3
    /\ now >= 5000


(***************************************************************************)
(* C18: an internal fault raised while a prompt is processed or while the  *)
(* panel is rendered never reaches the host as an exception: onPromptSend  *)
(* returns null and onActionClick returns the fallback error UI.           *)
(* The try of onActionClick encloses the creation of the element only: a   *)
(* fault raised when AnimationPanel is rendered is not caught.             *)
(***************************************************************************)
C18_FaultsNeverReachHost ==
  fault # NoFault =>
    /\ ~fault.escaped
    /\ fault.at = "onPromptSend" => fault.result = Null /\ returned.value = Null
    /\ fault.at \in {"onActionClick", "render"} => fault.result = Fallback


(***************************************************************************)
(* C21: validateCustomProperty accepts every name of 1 to 50 characters    *)
(* that matches ^[a-zA-Z-][a-zA-Z0-9-]*$, and rejects every name made from *)
(* such a name by replacing one character with a disallowed symbol.        *)
(***************************************************************************)
ValidatedName == input.fn = "validateCustomProperty" /\ output.stage = 1

C21_GrammarRoundTrip ==
  ValidatedName =>
    /\ input.property \in GoodNames =>
         output.value.isValid /\ output.value.errors = << >>
    /\ input.property \in SpoiledNames => ~output.value.isValid

C21_Witness ==
  /\ ValidatedName
  /\ input.property = Replaced(FiftyName, 50, "$")
  /\ ~output.value.isValid

(***************************************************************************)
(* C23: the three checks of validateCustomProperty are independent: the    *)
(* message of each check is in the result exactly when its own condition   *)
(* holds, so one name can have more than one message.                      *)
(***************************************************************************)
\* the names of CustomNames that match the grammar
MatchesGrammar(name) == name \in GoodNames \cup { TooLongName }

C23_ChecksIndependent ==
  ValidatedName =>
    LET name   == input.property
        errors == output.value.errors
    IN  /\ Includes(errors, "Property name cannot be empty") <=> name = ""
        /\ Includes(errors, "Property name cannot exceed 50 characters")
             <=> Len(name) > 50
        /\ Includes(errors, "Property name must be a valid CSS property (letters, numbers, and hyphens only)")
             <=> ~MatchesGrammar(name)
        /\ Len(errors) = (IF name = "" THEN 1 ELSE 0)
                         + (IF Len(name) > 50 THEN 1 ELSE 0)
                         + (IF MatchesGrammar(name) THEN 0 ELSE 1)

C23_Witness ==
  /\ ValidatedName
  /\ input.property = LongBadName
  /\ Len(output.value.errors) = 2

(***************************************************************************)
(* C24: validateIterations passes 'infinite'; a number has the             *)
(* positive-integer message exactly when it is not an integer >= 1, and    *)
(* the cap message exactly when it is above 100.                           *)
(***************************************************************************)
ValidatedIterationsValue == input.fn = "validateIterations" /\ output.stage = 1

\* twice the number: an odd value for n + 1/2
Twice(value) == 2 * value.n + (IF value = Num(value.n) THEN 0 ELSE 1)

C24_IterationsChecks ==
  ValidatedIterationsValue =>
    LET value  == input.value
        errors == output.value.errors
    IN  IF value = Infinite
        THEN output.value.isValid /\ errors = << >>
        ELSE /\ Includes(errors, "Iterations must be a positive integer or \"infinite\"")
                  <=> ~(Twice(value) % 2 = 0 /\ Twice(value) >= 2)
             /\ Includes(errors, "Iterations cannot exceed 100")
                  <=> Twice(value) > 200
             /\ output.value.isValid <=> errors = << >>

C24_Witness ==
  /\ ValidatedIterationsValue
  /\ input.value = Half(100)
  /\ Len(output.value.errors) = 2


(***************************************************************************)
(* C22: adding a custom property that fails validateCustomProperty, such   *)
(* as "my$prop", is rejected: the grammar message is added to the          *)
(* displayed errors, and selectedProperties and config.properties stay as  *)
(* they are.  The property is the text of the input as the handler         *)
(* sanitizes it, and it is not empty: the Add button is disabled for an    *)
(* empty text.                                                             *)
(***************************************************************************)
GrammarMessage ==
  "Property name must be a valid CSS property (letters, numbers, and hyphens only)"

\* the text of the input, trimmed and cut to 50 characters, is not empty
\* and fails validateCustomProperty
AddsInvalidProperty ==
  LET property == SubSeq(Trim(customProperty), 1,
                         Min(50, Len(Trim(customProperty))))
  IN  /\ property # ""
      /\ ~validateCustomProperty(property).isValid

C22_InvalidAddRejected ==
  [][ (addCustomProperty /\ AddsInvalidProperty) =>
        /\ validationErrors' = Append(validationErrors, GrammarMessage)
        /\ selectedProperties' = selectedProperties
        /\ config' = config
        /\ customProperty' = customProperty ]_vars

C22_Witness ==
  /\ mounted
  /\ customProperty = "my$prop"
  /\ Includes(validationErrors, GrammarMessage)
  /\ selectedProperties = DEFAULT_CONFIG.properties
  /\ config.properties = DEFAULT_CONFIG.properties

(***************************************************************************)
(* C25: the slot read by onPromptSend is null or a configuration that      *)
(* passes validateAnimationConfig, so onPromptSend never takes its         *)
(* 'invalid configuration' return: with a configuration in the slot and a  *)
(* selection in the prompt it returns the snippets.                        *)
(***************************************************************************)
C25_SlotHoldsValidConfig ==
  /\ currentAnimationConfig # Null =>
       /\ validateAnimationConfig(currentAnimationConfig).isValid
       /\ validateAnimationConfig(currentAnimationConfig).errors = << >>
  /\ (/\ returned.op = "onPromptSend"
      /\ currentAnimationConfig # Null
      /\ returned.prompt.present
      /\ Len(returned.prompt.contextElements) > 0) => returned.value # Null

\* an invalid configuration went through the validation effect, and the
\* slot kept the configuration accepted before it
C25_Witness ==
  /\ mounted
  /\ timers = {}
  /\ debouncedValue = config
  /\ ~validateAnimationConfig(config).isValid
  /\ currentAnimationConfig # Null
  /\ currentAnimationConfig # config

(***************************************************************************)
(* C26: after any sequence of toggleProperty and addCustomProperty,        *)
(* selectedProperties and config.properties are the same list.             *)
(***************************************************************************)
C26_SelectedEqualsConfigProperties ==
  selectedProperties = config.properties

\* "opacity" was toggled off and "my-prop" added
C26_Witness ==
  /\ mounted
  /\ selectedProperties = << "transform", "my-prop" >>
  /\ config.properties = << "transform", "my-prop" >>

(***************************************************************************)
(* C27: when no debounce timer is pending, the displayed errors are empty  *)
(* exactly when the panel's configuration passes validateAnimationConfig.  *)
(* A rejected addCustomProperty appends its message to the same list, and  *)
(* nothing removes it while the configuration stays as it is.              *)
(***************************************************************************)
C27_ErrorsIffInvalidWhenQuiescent ==
  (mounted /\ timers = {}) =>
    (validationErrors = << >> <=> validateAnimationConfig(config).isValid)


(***************************************************************************)
(* C28: a function wrapped by memoize only returns a value that its own    *)
(* underlying function computed for an argument list with the same key:    *)
(* of two wrapped functions called with equal arguments, none returns the  *)
(* other's cached result.  A value that a direct MemoizationCache.set put  *)
(* under the key is set aside.                                             *)
(* The cache is one static Map keyed by JSON.stringify(args) alone.        *)
(***************************************************************************)
OwnResults(fn, key) ==
  { Underlying(fn, args) : args \in { a \in ArgLists : KeyOf(a) = key } }

C28_OwnResultsOnly ==
  last.op = "memoized" =>
    last.value \in OwnResults(last.fn, last.key) \cup SetValues


(***************************************************************************)
(* C29: once three occurrences of an error key are logged in a run, an     *)
(* occurrence of the key is logged if and only if it arrives more than     *)
(* 5000 ms after the key's occurrence before it, dropped occurrences       *)
(* included; the occurrence that is logged sets the count to 1.            *)
(***************************************************************************)
C29_ResumesAfterQuietPeriod ==
  \A k \in DOMAIN occurrences :
    LET o == occurrences[k]
    IN  o.priorLogged >= 3 =>
          /\ o.log <=> o.gap > 5000
          /\ o.log => errorCounts[k] = [count |-> 1, lastOccurrence |-> o.at]

\* a fourth occurrence was dropped, and an occurrence more than 5000 ms
\* after it is logged
C29_Witness ==
  \E k \in DOMAIN occurrences :
    /\ occurrences[k].priorLogged = 3
    /\ occurrences[k].prior >= 4
    /\ occurrences[k].gap > 5000
    /\ occurrences[k].log
    /\ errorCounts[k].count = 1

\* the occurrence exactly 5000 ms after a dropped one is dropped too
C29_WitnessStillDropped ==
  \E k \in DOMAIN occurrences :
    /\ occurrences[k].prior >= 4
    /\ occurrences[k].gap = 5000
    /\ ~occurrences[k].log


(***************************************************************************)
(* C30: a burst of calls of a debounced function, each less than wait ms   *)
(* after the one before, invokes func exactly once: without immediate,     *)
(* wait ms after the last call of the burst and with its arguments; with   *)
(* immediate, at the first call of the burst with its arguments, and not   *)
(* when the timer runs.  The timers run when they are due.                 *)
(***************************************************************************)
\* the one invocation of a burst without immediate
TrailingEdge(burst) ==
  [at |-> burst.last.at + DebounceWait, args |-> burst.last.args]

\* the one invocation of a burst with immediate
LeadingEdge(burst) == burst.first

====
